---- MODULE Spec2Model ----
(***************************************************************************)
(* Model of converters/resourcegroup_yaml_to_xml.py: the Topology store,   *)
(* the downtime buckets, the record expanders and the directory driver.    *)
(*                                                                         *)
(* Strings that the code compares, lower-cases or searches are sequences   *)
(* of code points (<<73, 68>> is "ID"); Python dicts are insertion-ordered *)
(* sequences of [k, v] entries.                                            *)
(***************************************************************************)
EXTENDS Integers, Sequences, FiniteSets, TLC

VARIABLES
    data,               \* Topology.data: facility -> {"ID", site -> {"ID", rg -> rgdata}}
    past_downtimes,     \* Topology.past_downtimes
    current_downtimes,  \* Topology.current_downtimes
    future_downtimes,   \* Topology.future_downtimes
    raised,             \* the exception that ended the run, "none" while running
    log,                \* history: the calls that returned, in call order
    clock,              \* the wall clock read by datetime.now(timezone.utc)
    pc,                 \* position of the driver / of a function under study
    rg_expanded,        \* driver local: the expanded group being processed
    stderr,             \* diagnostic lines printed so far
    downtimes,          \* driver local: entries of the downtime file not yet processed
    arg,                \* input of the function under study, or of the last driver step
    ret                 \* value returned by the function or the driver

vars == <<data, past_downtimes, current_downtimes, future_downtimes, raised, log,
          clock, pc, rg_expanded, stderr, downtimes, arg, ret>>

----------------------------------------------------------------------------
(* Bounds of the model *)

MaxCalls == 3
MaxDowntimeCalls == 2
MaxVOs == 2
MaxGroups == 2
MaxDowntimes == 2

----------------------------------------------------------------------------
(* Names *)

ID_KEY == <<73, 68>>                \* "ID"
N_alpha == <<97, 108, 112, 104, 97>>   \* "alpha"
N_Alpha == <<65, 108, 112, 104, 97>>   \* "Alpha"
N_Bravo == <<66, 114, 97, 118, 111>>   \* "Bravo"
N_F == <<70>>                       \* "F"
N_S == <<83>>                       \* "S"
N_T == <<84>>                       \* "T"

FacilityNames == {N_F}
SiteNames == {N_S, N_T, ID_KEY}
GroupNames == {N_alpha, N_Alpha, N_Bravo, ID_KEY}
FacilityIds == {10001}
SiteIds == {10002}
GroupIds == {1, 2}

----------------------------------------------------------------------------
(* Python str operations *)

\* str.lower() on one code point: A-Z map to a-z
LowerChar(c) == IF c >= 65 /\ c <= 90 THEN c + 32 ELSE c

\* str.lower()
Lower(s) == [i \in 1..Len(s) |-> LowerChar(s[i])]

\* str.__lt__: ordinal, lexicographic
RECURSIVE StrLess(_, _)
StrLess(a, b) ==
    IF b = <<>> THEN FALSE
    ELSE IF a = <<>> THEN TRUE
    ELSE IF Head(a) < Head(b) THEN TRUE
    ELSE IF Head(a) > Head(b) THEN FALSE
    ELSE StrLess(Tail(a), Tail(b))

----------------------------------------------------------------------------
(* Python dict operations on an insertion-ordered mapping *)

DictHas(d, k) == \E i \in 1..Len(d) : d[i].k = k
DictIdx(d, k) == CHOOSE i \in 1..Len(d) : d[i].k = k
DictGet(d, k) == d[DictIdx(d, k)].v
\* d[k] = v : an existing key keeps its position, a new key goes last
DictSet(d, k, v) ==
    IF DictHas(d, k) THEN [d EXCEPT ![DictIdx(d, k)].v = v]
    ELSE Append(d, [k |-> k, v |-> v])

\* values held in Topology.data
IntV(n) == [tag |-> "int", n |-> n, d |-> <<>>, rg |-> <<>>]
DictV(d) == [tag |-> "dict", n |-> 0, d |-> d, rg |-> <<>>]
RgV(r) == [tag |-> "rg", n |-> 0, d |-> <<>>, rg |-> <<r>>]

Ok(d) == [data |-> d, raised |-> "none"]
Raise(d, e) == [data |-> d, raised |-> e]

----------------------------------------------------------------------------
(* Topology: the store *)

\* Topology.add_facility
add_facility(d, name, id) ==
    LET d1 == IF ~DictHas(d, name) THEN DictSet(d, name, DictV(<<>>)) ELSE d
        f1 == DictSet(DictGet(d1, name).d, ID_KEY, IntV(id))
    IN Ok(DictSet(d1, name, DictV(f1)))

\* Topology.add_site
add_site(d, facility, name, id) ==
    LET d1 == IF ~DictHas(d, facility) THEN DictSet(d, facility, DictV(<<>>)) ELSE d
        f1 == DictGet(d1, facility).d
        f2 == IF ~DictHas(f1, name) THEN DictSet(f1, name, DictV(<<>>)) ELSE f1
        sv == DictGet(f2, name)
    IN IF sv.tag # "dict"
       THEN Raise(d, "TypeError")      \* item assignment on the facility's int ID
       ELSE Ok(DictSet(d1, facility,
                 DictV(DictSet(f2, name, DictV(DictSet(sv.d, ID_KEY, IntV(id)))))))

\* add_rg without its membership test: every call stores its record
RgKeyMissing_Always(sitedict, rg) == TRUE

\* the membership test of add_rg, line 69
RgKeyMissing(sitedict, rg) == ~DictHas(sitedict, rg)

\* Topology.add_rg
add_rg(d, facility, site, rg, rgdata) ==
    LET d1 == IF ~DictHas(d, facility) THEN DictSet(d, facility, DictV(<<>>)) ELSE d
        f1 == DictGet(d1, facility).d
        f2 == IF ~DictHas(f1, site) THEN DictSet(f1, site, DictV(<<>>)) ELSE f1
        sv == DictGet(f2, site)
    IN IF sv.tag # "dict"
       THEN Raise(d, "TypeError")      \* "rg not in <int>"
       ELSE LET s2 == IF RgKeyMissing(sv.d, rg) THEN DictSet(sv.d, rg, RgV(rgdata)) ELSE sv.d
            IN Ok(DictSet(d1, facility, DictV(DictSet(f2, site, DictV(s2)))))

\* the inner loop of get_resource_summary: the groups of one site
RECURSIVE SiteGroups(_)
SiteGroups(sd) ==
    IF sd = <<>> THEN <<>>
    ELSE IF Head(sd).k = ID_KEY THEN SiteGroups(Tail(sd))
    ELSE Head(sd).v.rg \o SiteGroups(Tail(sd))

\* the middle loop: the groups of one facility
RECURSIVE FacilityGroups(_)
FacilityGroups(fd) ==
    IF fd = <<>> THEN <<>>
    ELSE IF Head(fd).k = ID_KEY THEN FacilityGroups(Tail(fd))
    ELSE SiteGroups(Head(fd).v.d) \o FacilityGroups(Tail(fd))

\* the outer loop: every facility of the store
RECURSIVE AllGroups(_)
AllGroups(d) ==
    IF d = <<>> THEN <<>>
    ELSE FacilityGroups(Head(d).v.d) \o AllGroups(Tail(d))

\* the sort key of line 105
SortKey(x) == Lower(x.GroupName)

\* list.sort(key=...): stable, so equal keys keep their order
RECURSIVE InsertSorted(_, _)
InsertSorted(x, s) ==
    IF s = <<>> THEN <<x>>
    ELSE IF StrLess(SortKey(x), SortKey(Head(s))) THEN <<x>> \o s
    ELSE <<Head(s)>> \o InsertSorted(x, Tail(s))

RECURSIVE SortGroups(_)
SortGroups(s) ==
    IF s = <<>> THEN <<>>
    ELSE LET n == Len(s) IN InsertSorted(s[n], SortGroups(SubSeq(s, 1, n - 1)))

\* Topology.get_resource_summary: the "ResourceGroup" list
get_resource_summary(d) == SortGroups(AllGroups(d))

----------------------------------------------------------------------------
(* Specification of the store: any sequence of add_facility, add_site and  *)
(* add_rg calls on a fresh Topology.                                       *)

Idle ==
    /\ past_downtimes = <<>> /\ current_downtimes = <<>> /\ future_downtimes = <<>>
    /\ clock = 0 /\ rg_expanded = <<>> /\ stderr = <<>> /\ downtimes = 0
    /\ arg = <<>> /\ ret = <<>>

InitStore ==
    /\ data = <<>>
    /\ raised = "none"
    /\ log = <<>>
    /\ pc = "store"
    /\ Idle

StoreRest == UNCHANGED <<past_downtimes, current_downtimes, future_downtimes, clock,
                         pc, rg_expanded, stderr, downtimes, arg, ret>>

Call(r, entry) ==
    /\ raised = "none"
    /\ Len(log) < MaxCalls
    /\ data' = r.data
    /\ raised' = r.raised
    /\ log' = IF r.raised = "none" THEN Append(log, entry) ELSE log
    /\ StoreRest

AddFacility ==
    \E name \in FacilityNames, id \in FacilityIds :
        Call(add_facility(data, name, id), [op |-> "add_facility", f |-> name, id |-> id])

AddSite ==
    \E facility \in FacilityNames, name \in SiteNames, id \in SiteIds :
        Call(add_site(data, facility, name, id),
             [op |-> "add_site", f |-> facility, s |-> name, id |-> id])

AddRg ==
    \E facility \in FacilityNames, site \in SiteNames, rg \in GroupNames, id \in GroupIds :
        \* the driver sets Facility, Site and GroupName from the file's path (lines 401-403)
        LET rgdata == [GroupName |-> rg, Facility |-> facility, Site |-> site, GroupID |-> id]
        IN Call(add_rg(data, facility, site, rg, rgdata),
                [op |-> "add_rg", f |-> facility, s |-> site, g |-> rg, rgdata |-> rgdata])

NextStore == AddFacility \/ AddSite \/ AddRg

SpecStore == InitStore /\ [][NextStore]_vars

----------------------------------------------------------------------------
(* Properties of the store *)

IsRg(c) == c.op = "add_rg"
KeyOf(c) == <<c.f, c.s, c.g>>
RgCalls == {i \in 1..Len(log) : IsRg(log[i])}
RecKey(r) == <<r.Facility, r.Site, r.GroupName>>
NoIdName(key) == key[2] # ID_KEY /\ key[3] # ID_KEY
InSeq(x, s) == \E i \in 1..Len(s) : s[i] = x

\* what self.data[f][s][g] holds, as a list of at most one group record
StoredRg(d, key) ==
    IF ~DictHas(d, key[1]) THEN <<>>
    ELSE LET fd == DictGet(d, key[1]).d
         IN IF ~DictHas(fd, key[2]) THEN <<>>
            ELSE LET sd == DictGet(fd, key[2]).d
                 IN IF ~DictHas(sd, key[3]) THEN <<>> ELSE DictGet(sd, key[3]).rg

\* the calls of a history applied in order to a fresh store
ApplyCall(d, c) ==
    IF c.op = "add_facility" THEN add_facility(d, c.f, c.id)
    ELSE IF c.op = "add_site" THEN add_site(d, c.f, c.s, c.id)
    ELSE add_rg(d, c.f, c.s, c.g, c.rgdata)

RECURSIVE Replay(_)
Replay(calls) ==
    IF calls = <<>> THEN Ok(<<>>)
    ELSE LET before == Replay(SubSeq(calls, 1, Len(calls) - 1))
         IN IF before.raised # "none" THEN before
            ELSE ApplyCall(before.data, calls[Len(calls)])

\* the orders in which the same add_rg calls could have been discovered: the
\* add_rg calls permuted among their own positions
Reorderings ==
    {p \in Permutations(1..Len(log)) : \A i \in 1..Len(log) : ~IsRg(log[i]) => p[i] = i}

SortedByLowerName(s) ==
    \A i \in 1..(Len(s) - 1) : ~StrLess(Lower(s[i + 1].GroupName), Lower(s[i].GroupName))

DistinctKeys == \A i, j \in RgCalls : i # j => KeyOf(log[i]) # KeyOf(log[j])

\* C2: for every set of groups inserted with add_rg (names that differ only in
\* case or repeat under different sites included), the summary list is in
\* non-decreasing order of lower-cased GroupName and is the same list for every
\* insertion order of that set.
C2_SortedAndOrderIndependent ==
    (raised = "none" /\ DistinctKeys /\ \A i \in RgCalls : NoIdName(KeyOf(log[i])))
    => /\ SortedByLowerName(get_resource_summary(data))
       /\ \A p \in Reorderings :
            LET other == Replay([i \in 1..Len(log) |-> log[p[i]]])
            IN other.raised = "none"
               => get_resource_summary(other.data) = get_resource_summary(data)

C10_OneEntryPerKey ==
    LET summary == get_resource_summary(data)
        keys == {KeyOf(log[i]) : i \in RgCalls}
    IN /\ Len(summary) = Cardinality(keys)
       /\ \A key \in keys : \E i \in 1..Len(summary) : RecKey(summary[i]) = key
       /\ \A i \in 1..Len(summary) : RecKey(summary[i]) \in keys

----------------------------------------------------------------------------
(* Topology._parsetime *)

SP == 32            \* " "
TAB == 9            \* "\t"
COLON == 58         \* ":"
Whitespace == {SP, TAB}
S_AM == <<65, 77>>          \* "AM"
S_PM == <<80, 77>>          \* "PM"
S_SP_AM == <<SP>> \o S_AM   \* " AM"
S_SP_PM == <<SP>> \o S_PM   \* " PM"

IsDigit(c) == c >= 48 /\ c <= 57
DigitVal(c) == c - 48

\* s[i..] starts with t
StartsAt(s, i, t) ==
    /\ i >= 1
    /\ i + Len(t) - 1 <= Len(s)
    /\ \A j \in 1..Len(t) : s[i + j - 1] = t[j]

\* str.find-like test: t occurs in s
Contains(s, t) == \E i \in 1..Len(s) : StartsAt(s, i, t)

\* str.replace(t, ""): every non-overlapping occurrence of t removed, left to right
RECURSIVE Remove(_, _)
Remove(s, t) ==
    IF s = <<>> THEN <<>>
    ELSE IF StartsAt(s, 1, t) THEN Remove(SubSeq(s, Len(t) + 1, Len(s)), t)
    ELSE <<Head(s)>> \o Remove(Tail(s), t)

\* "(1[3-9]|2[0-3])" on the two hour characters
HourIs13to23(a, b) == \/ a = 49 /\ b >= 51 /\ b <= 57
                      \/ a = 50 /\ b >= 48 /\ b <= 51

\* "00" on the two hour characters
HourIs00(a, b) == a = 48 /\ b = 48

\* "\s+HH:\d\d\s+<suffix>" with the leading whitespace run ending at position
\* i, HH being "00" before AM and 13-23 before PM
TimeSuffixAt(s, i, suffix) ==
    /\ i + 5 <= Len(s)
    /\ s[i] \in Whitespace
    /\ IF suffix = S_AM THEN HourIs00(s[i + 1], s[i + 2])
       ELSE HourIs13to23(s[i + 1], s[i + 2])
    /\ s[i + 3] = COLON
    /\ IsDigit(s[i + 4]) /\ IsDigit(s[i + 5])
    /\ \E j \in (i + 6)..Len(s) :
          /\ \A k \in (i + 6)..j : s[k] \in Whitespace
          /\ StartsAt(s, j + 1, suffix)

\* re.search(r"\s+00:\d\d\s+AM", time_str)
SearchMidnightAM(s) == \E i \in 1..Len(s) : TimeSuffixAt(s, i, S_AM)

\* re.search(r"\s+(1[3-9]|2[0-3]):\d\d\s+PM", time_str)
SearchAfternoonPM(s) == \E i \in 1..Len(s) : TimeSuffixAt(s, i, S_PM)

\* lines 128-131: the string handed to dateparser.parse
NormalizeTime(time_str) ==
    IF SearchMidnightAM(time_str) THEN Remove(time_str, S_SP_AM)
    ELSE IF SearchAfternoonPM(time_str) THEN Remove(time_str, S_SP_PM)
    ELSE time_str

\* str.strip() of the whitespace around a string
RECURSIVE Strip(_)
Strip(s) ==
    IF s = <<>> THEN <<>>
    ELSE IF Head(s) \in Whitespace THEN Strip(Tail(s))
    ELSE IF s[Len(s)] \in Whitespace THEN Strip(SubSeq(s, 1, Len(s) - 1))
    ELSE s

NoTime == [ok |-> FALSE, t |-> 0]
SomeTime(t) == [ok |-> TRUE, t |-> t]

\* a 12-hour clock time "HH:MM AM|PM" needs 1 <= HH <= 12; a bare "HH:MM" is
\* read on the 24-hour clock
ClockTime(h, m, meridiem) ==
    IF h > 23 \/ m > 59 THEN NoTime
    ELSE IF meridiem = <<>> THEN SomeTime(60 * h + m)
    ELSE IF h = 0 \/ h > 12 THEN NoTime
    ELSE IF meridiem = S_AM THEN SomeTime(60 * (h % 12) + m)
    ELSE IF meridiem = S_PM THEN SomeTime(60 * ((h % 12) + 12) + m)
    ELSE NoTime

\* dateparser.parse on "[M/D ]HH:MM[ AM|PM]": the instant in minutes from the
\* start of the day the run evaluates, or nothing when the text is no time
dateparser_parse(str) ==
    LET s0 == Strip(str)
        s1 == IF Len(s0) >= 4 /\ IsDigit(s0[1]) /\ s0[2] = 47 /\ IsDigit(s0[3])
                 /\ s0[4] \in Whitespace
              THEN Strip(SubSeq(s0, 4, Len(s0))) ELSE s0
    IN IF /\ Len(s1) >= 5
          /\ IsDigit(s1[1]) /\ IsDigit(s1[2]) /\ s1[3] = COLON
          /\ IsDigit(s1[4]) /\ IsDigit(s1[5])
       THEN ClockTime(10 * DigitVal(s1[1]) + DigitVal(s1[2]),
                      10 * DigitVal(s1[4]) + DigitVal(s1[5]),
                      Strip(SubSeq(s1, 6, Len(s1))))
       ELSE NoTime

\* Topology._parsetime: ok = FALSE stands for ValueError("Invalid time ...")
parsetime(time_str) == dateparser_parse(NormalizeTime(time_str))

----------------------------------------------------------------------------
(* Time strings *)

S_Date == <<49, 47, 50>>        \* "1/2"
TwoDigits(n) == <<48 + (n \div 10), 48 + (n % 10)>>

\* "[1/2 ]HH:MM[<gap>AM|PM]"
TimeString(dated, h, m, gap, suffix) ==
    (IF dated THEN S_Date \o <<SP>> ELSE <<>>)
    \o TwoDigits(h) \o <<COLON>> \o TwoDigits(m)
    \o (IF suffix = <<>> THEN <<>> ELSE gap \o suffix)

Hours == {0, 1, 12, 13, 17, 23}
Minutes == {0, 30}
Gaps == {<<SP>>, <<SP, SP>>, <<TAB>>}
Suffixes == {<<>>, S_AM, S_PM}

TimeInputs ==
    [dated : BOOLEAN, h : Hours, m : Minutes, gap : Gaps, suffix : Suffixes]

StringOf(i) == TimeString(i.dated, i.h, i.m, i.gap, i.suffix)

----------------------------------------------------------------------------
(* Specification of _parsetime: one call on a time string *)

InitTime ==
    /\ arg \in TimeInputs
    /\ ret = <<>>
    /\ pc = "call"
    /\ raised = "none"
    /\ data = <<>> /\ log = <<>>
    /\ past_downtimes = <<>> /\ current_downtimes = <<>> /\ future_downtimes = <<>>
    /\ clock = 0 /\ rg_expanded = <<>> /\ stderr = <<>> /\ downtimes = 0

\* the call: ret.parsed is the argument of dateparser.parse, ret.time its result
ParseTime ==
    /\ pc = "call"
    /\ LET r == parsetime(StringOf(arg))
       IN /\ ret' = [parsed |-> NormalizeTime(StringOf(arg)), time |-> r]
          /\ raised' = IF r.ok THEN "none" ELSE "ValueError"
    /\ pc' = "returned"
    /\ UNCHANGED <<data, past_downtimes, current_downtimes, future_downtimes, log,
                   clock, rg_expanded, stderr, downtimes, arg>>

NextTime == ParseTime

SpecTime == InitTime /\ [][NextTime]_vars

HasSuffix(s) == Contains(s, S_AM) \/ Contains(s, S_PM)
Redundant(i) == \/ i.suffix = S_PM /\ i.h >= 13 /\ i.h <= 23
                \/ i.suffix = S_AM /\ i.h = 0

\* C8: a time string with hour 13-23 and PM, or hour 00 and AM, standing alone
\* or after a date, reaches the date parser without its AM/PM suffix and is
\* parsed as that 24-hour time; a string with any other hour keeps its suffix.
C8_SuffixStripped ==
    (pc = "returned" /\ arg.gap # <<TAB>>) =>
        IF Redundant(arg)
        THEN /\ ~HasSuffix(ret.parsed)
             /\ ret.time = SomeTime(60 * arg.h + arg.m)
        ELSE ret.parsed = StringOf(arg)

----------------------------------------------------------------------------
(* Topology.add_downtime *)

None == <<>>
Some(x) == <<x>>

\* line 147 with <= for <: a window ending at the instant itself counts as over
EndedBefore_Inclusive(end_time, current_time) == end_time <= current_time

\* the comparison of line 147
EndedBefore(end_time, current_time) == end_time < current_time

\* lines 147-152: the bucket of a window at the instant current_time
Bucket(start_time, end_time, current_time) ==
    IF EndedBefore(end_time, current_time) THEN "past"
    ELSE IF start_time > current_time THEN "future"
    ELSE "current"

\* Topology.add_downtime on the three lists, current_time being the value of
\* datetime.now(timezone.utc)
add_downtime(past, current, future, downtime, current_time) ==
    IF downtime = None
    THEN [past |-> past, current |-> current, future |-> future, raised |-> "none"]
    ELSE LET dt == downtime[1]
             start_time == parsetime(dt.StartTime)
             end_time == parsetime(dt.EndTime)
         IN IF ~start_time.ok \/ ~end_time.ok
            THEN [past |-> past, current |-> current, future |-> future,
                  raised |-> "ValueError"]
            ELSE LET b == Bucket(start_time.t, end_time.t, current_time)
                 IN [past |-> IF b = "past" THEN Append(past, dt) ELSE past,
                     current |-> IF b = "current" THEN Append(current, dt) ELSE current,
                     future |-> IF b = "future" THEN Append(future, dt) ELSE future,
                     raised |-> "none"]

----------------------------------------------------------------------------
(* Specification of the buckets: any sequence of add_downtime calls on a   *)
(* fresh Topology, the clock never running backwards.                      *)

DowntimeTimes ==
    { TimeString(TRUE, 1, 0, <<SP>>, S_AM),     \* "1/2 01:00 AM"
      TimeString(TRUE, 13, 0, <<SP>>, S_PM),    \* "1/2 13:00 PM"
      TimeString(FALSE, 17, 0, <<SP>>, S_PM) }  \* "17:00 PM"

Instants == {parsetime(s).t : s \in {x \in DowntimeTimes : parsetime(x).ok}}
EvalInstants == {t + d : t \in Instants, d \in {-1, 0, 1}}

InitDowntime ==
    /\ past_downtimes = <<>> /\ current_downtimes = <<>> /\ future_downtimes = <<>>
    /\ clock \in EvalInstants
    /\ raised = "none"
    /\ log = <<>>
    /\ pc = "buckets"
    /\ data = <<>> /\ rg_expanded = <<>> /\ stderr = <<>> /\ downtimes = 0
    /\ arg = <<>> /\ ret = <<>>

AddDowntime ==
    /\ raised = "none"
    /\ Len(log) < MaxDowntimeCalls
    /\ \E downtime \in {None} \cup
            {Some([ID |-> Len(log) + 1, StartTime |-> a, EndTime |-> b]) :
                a \in DowntimeTimes, b \in DowntimeTimes},
          now \in {t \in EvalInstants : t >= clock} :
          LET r == add_downtime(past_downtimes, current_downtimes, future_downtimes,
                                downtime, now)
          IN /\ past_downtimes' = r.past
             /\ current_downtimes' = r.current
             /\ future_downtimes' = r.future
             /\ raised' = r.raised
             /\ clock' = now
             /\ log' = IF r.raised = "none"
                       THEN Append(log, [downtime |-> downtime, T |-> now])
                       ELSE log
    /\ UNCHANGED <<data, pc, rg_expanded, stderr, downtimes, arg, ret>>

NextDowntime == AddDowntime

SpecDowntime == InitDowntime /\ [][NextDowntime]_vars

Count(x, s) == Cardinality({i \in 1..Len(s) : s[i] = x})
Passed == {i \in 1..Len(log) : log[i].downtime # None}

\* C1: after any sequence of add_downtime calls every non-None downtime passed
\* in is in exactly one bucket, chosen against the instant T of its call: past
\* if end < T, else future if start > T, else current (start = T or end = T of
\* a window start <= end gives current); a None call adds nothing.
C1_OneBucketByInstant ==
    /\ \A i \in Passed :
        LET dt == log[i].downtime[1]
            T == log[i].T
            start == parsetime(dt.StartTime).t
            end == parsetime(dt.EndTime).t
            inPast == Count(dt, past_downtimes)
            inCurrent == Count(dt, current_downtimes)
            inFuture == Count(dt, future_downtimes)
        IN /\ inPast + inCurrent + inFuture = 1
           /\ end < T => inPast = 1
           /\ (end >= T /\ start > T) => inFuture = 1
           /\ (end >= T /\ start <= T) => inCurrent = 1
           /\ (start <= end /\ (start = T \/ end = T)) => inCurrent = 1
    /\ Len(past_downtimes) + Len(current_downtimes) + Len(future_downtimes)
         = Cardinality(Passed)

\* a window that ends exactly at the evaluation instant was filed as current,
\* and a None call has returned
C1_Witness ==
    /\ \E i \in Passed :
         /\ parsetime(log[i].downtime[1].EndTime).t = log[i].T
         /\ Count(log[i].downtime[1], current_downtimes) = 1
    /\ \E i \in 1..Len(log) : log[i].downtime = None

----------------------------------------------------------------------------
(* expand_voownership and get_charturl *)

S_Other == <<40, 79, 116, 104, 101, 114, 41>>   \* "(Other)"
S_OtherLabel == <<79, 116, 104, 101, 114>>      \* "Other"
S_A == <<65>>                                   \* "A"
S_B == <<66>>                                   \* "B"
COMMA == 44
PIPE == 124
Full == 100         \* the total of line 196

\* "%s" % n for a non-negative int
RECURSIVE Str(_)
Str(n) == IF n < 10 THEN <<48 + n>> ELSE Str(n \div 10) \o <<48 + (n % 10)>>

\* str.rstrip(c) for a one-character set
RECURSIVE RStrip(_, _)
RStrip(s, c) ==
    IF s # <<>> /\ s[Len(s)] = c THEN RStrip(SubSeq(s, 1, Len(s) - 1), c) ELSE s

HexDigit(n) == IF n < 10 THEN 48 + n ELSE 55 + n

\* urllib.parse.quote_plus on one code point
QuoteChar(c) ==
    IF \/ IsDigit(c) \/ (c >= 65 /\ c <= 90) \/ (c >= 97 /\ c <= 122)
       \/ c \in {95, 46, 45, 126}
    THEN <<c>>
    ELSE IF c = SP THEN <<43>>
    ELSE <<37, HexDigit(c \div 16), HexDigit(c % 16)>>

RECURSIVE QuotePlus(_)
QuotePlus(s) == IF s = <<>> THEN <<>> ELSE QuoteChar(Head(s)) \o QuotePlus(Tail(s))

\* the loop of get_charturl, lines 174-178: the "chd" and "chl" texts
RECURSIVE ChartData(_)
ChartData(ownership) ==
    IF ownership = <<>> THEN <<>>
    ELSE Str(Head(ownership).v) \o <<COMMA>> \o ChartData(Tail(ownership))

RECURSIVE ChartLabels(_)
ChartLabels(ownership) ==
    IF ownership = <<>> THEN <<>>
    ELSE LET name == IF Head(ownership).k = S_Other THEN S_OtherLabel ELSE Head(ownership).k
         IN Str(Head(ownership).v) \o <<40>> \o name \o <<37, 41, PIPE>>
            \o ChartLabels(Tail(ownership))

S_URL == <<104, 116, 116, 112, 58, 47, 47, 99, 104, 97, 114, 116, 46, 97, 112, 105, 115,
           46, 103, 111, 111, 103, 108, 101, 46, 99, 111, 109, 47, 99, 104, 97, 114, 116,
           63>>                                 \* "http://chart.apis.google.com/chart?"
S_chco == <<99, 104, 99, 111, 61, 48, 48, 99, 99, 48, 48>>      \* "chco=00cc00"
S_cht == <<38, 99, 104, 116, 61, 112, 51>>                      \* "&cht=p3"
S_chd == <<99, 104, 100, 61>>                                   \* "chd="
S_chs == <<38, 99, 104, 115, 61, 50, 56, 48, 120, 54, 53>>      \* "&chs=280x65"
S_chl == <<38, 99, 104, 108, 61>>                               \* "&chl="
S_t == <<116, 58>>                                              \* "t:"

\* get_charturl
get_charturl(ownership) ==
    LET chd == RStrip(ChartData(ownership), COMMA)
        chl == RStrip(ChartLabels(ownership), PIPE)
    IN S_URL \o S_chco \o S_cht \o <<38>> \o S_chd \o QuotePlus(S_t \o chd)
       \o S_chs \o S_chl \o QuotePlus(chl)

\* sum(voo.values())
RECURSIVE SumValues(_)
SumValues(d) == IF d = <<>> THEN 0 ELSE Head(d).v + SumValues(Tail(d))

\* convertlib.expand_attr_list_single(voo, "VO", "Percent", name_first=False)
expand_attr_list_single(d) == [i \in 1..Len(d) |-> [Percent |-> d[i].v, VO |-> d[i].k]]

\* line 196 with <= for <: a full mapping gets a remainder entry too
Underfull_Inclusive(totalpercent) == totalpercent <= Full

\* the test of line 196
Underfull(totalpercent) == totalpercent < Full

\* the pairs handed to get_charturl, line 200
ChartSource(voownership, voo) == voownership

\* expand_voownership
expand_voownership(voownership) ==
    LET totalpercent == SumValues(voownership)
        voo == IF Underfull(totalpercent)
               THEN DictSet(voownership, S_Other, Full - totalpercent)
               ELSE voownership
    IN [Ownership |-> expand_attr_list_single(voo),
        ChartURL |-> get_charturl(ChartSource(voownership, voo))]

----------------------------------------------------------------------------
(* Specification of expand_voownership: one call on a VOOwnership mapping *)

VONames == {S_A, S_B, S_Other}
Percents == {10, 30, 60, 100}

\* the mappings of at most MaxVOs entries, in every key order
VOInputs ==
    UNION { { d \in [1..n -> [k : VONames, v : Percents]] :
                \A i, j \in 1..n : i # j => d[i].k # d[j].k } : n \in 0..MaxVOs }

InitVOO ==
    /\ arg \in VOInputs
    /\ ret = <<>>
    /\ pc = "call"
    /\ raised = "none"
    /\ data = <<>> /\ log = <<>>
    /\ past_downtimes = <<>> /\ current_downtimes = <<>> /\ future_downtimes = <<>>
    /\ clock = 0 /\ rg_expanded = <<>> /\ stderr = <<>> /\ downtimes = 0

ExpandVOOwnership ==
    /\ pc = "call"
    /\ ret' = expand_voownership(arg)
    /\ pc' = "returned"
    /\ UNCHANGED <<data, past_downtimes, current_downtimes, future_downtimes, raised,
                   log, clock, rg_expanded, stderr, downtimes, arg>>

NextVOO == ExpandVOOwnership

SpecVOO == InitVOO /\ [][NextVOO]_vars

RECURSIVE SumPercent(_)
SumPercent(o) == IF o = <<>> THEN 0 ELSE Head(o).Percent + SumPercent(Tail(o))

RECURSIVE JoinPercent(_)
JoinPercent(o) ==
    IF o = <<>> THEN <<>>
    ELSE Str(Head(o).Percent) \o (IF Len(o) = 1 THEN <<>> ELSE <<COMMA>>) \o JoinPercent(Tail(o))

OtherEntries(o) == {i \in 1..Len(o) : o[i].VO = S_Other}
KeepsEntry(o, e) == \E i \in 1..Len(o) : o[i].VO = e.k /\ o[i].Percent = e.v

\* C3: the chart URL carries the same percentage series as the Ownership list,
\* the (Other) remainder included ({A:60, B:30} gives chd=t:60,30,10, the value
\* URL-encoded in the query string).
C3_ChartSeriesIsOwnership ==
    (pc = "returned" /\ ~DictHas(arg, S_Other))
    => Contains(ret.ChartURL, S_chd \o QuotePlus(S_t \o JoinPercent(ret.Ownership)) \o <<38>>)

----------------------------------------------------------------------------
(* The expanders *)

S_X == <<88>>               \* "X"
S_Y == <<89>>               \* "Y"
S_Z == <<90>>               \* "Z"
S_CE == <<67, 69>>          \* "CE"
S_SE == <<83, 69>>          \* "SE"
S_XX == <<88, 88>>          \* "XX"
S_SC == <<83, 67>>          \* "SC"
S_NoSC == <<78, 111, 83, 67>>   \* "NoSC"

\* a str standing where a mapping is expected, and the mapping itself
StrV(text) == [tag |-> "str", text |-> text, Service |-> <<>>]
ServicesV(list) == [tag |-> "dict", text |-> "", Service |-> list]

Returned(v) == [raised |-> "none", value |-> v]
Throws(e) == [raised |-> e, value |-> None]

\* convertlib.is_null(res, "Services"): the key is absent, or null, or empty
is_null(field) == field = None \/ field[1] = <<>>

\* convertlib.expand_attr_list(services, "Name", ordering=[...])
expand_attr_list(services) ==
    [i \in 1..Len(services) |->
        [Name |-> services[i].k, Description |-> services[i].v.Description,
         Details |-> services[i].v.Details]]

\* expand_services
expand_services(services, service_name_to_id) ==
    LET services_list == expand_attr_list(services)
    IN IF \E i \in 1..Len(services_list) : ~DictHas(service_name_to_id, services_list[i].Name)
       THEN Throws("KeyError")
       ELSE Returned(ServicesV(
              [i \in 1..Len(services_list) |->
                 [ID |-> DictGet(service_name_to_id, services_list[i].Name),
                  Name |-> services_list[i].Name,
                  Description |-> services_list[i].Description,
                  Details |-> services_list[i].Details]]))

\* the "Services" default of expand_resource, line 243
DefaultServices == StrV("no applicable service exists")

\* expand_resource: the fields read downstream (ID, Name, Services, FQDN,
\* VOOwnership); the other optional fields pass through it the same way
expand_resource(name, res, service_name_to_id) ==
    LET services == IF ~is_null(res.Services)
                    THEN expand_services(res.Services[1], service_name_to_id)
                    ELSE Returned(DefaultServices)
        voo == IF res.VOOwnership # None
               THEN [tag |-> "dict", text |-> "", v |-> <<expand_voownership(res.VOOwnership[1])>>]
               ELSE [tag |-> "str", text |-> "(Information not available)", v |-> <<>>]
    IN IF services.raised # "none" THEN Throws(services.raised)
       ELSE Returned([ID |-> res.ID, Name |-> name, Services |-> services.value,
                      FQDN |-> res.FQDN, VOOwnership |-> voo])

\* new_resources.sort(key=lambda x: x["Name"]): stable, ordinal
RECURSIVE InsertByName(_, _)
InsertByName(x, s) ==
    IF s = <<>> THEN <<x>>
    ELSE IF StrLess(x.Name, Head(s).Name) THEN <<x>> \o s
    ELSE <<Head(s)>> \o InsertByName(x, Tail(s))

RECURSIVE SortByName(_)
SortByName(s) ==
    IF s = <<>> THEN <<>>
    ELSE LET n == Len(s) IN InsertByName(s[n], SortByName(SubSeq(s, 1, n - 1)))

\* lines 291-296 swallowing the exception: the resource is left out, the loop goes on
ResourceFailure_Skip(done, e, res) ==
    [raised |-> "none", list |-> done.list,
     stderr |-> done.stderr \o <<[stream |-> "stderr", line |-> "pprint(res)"]>>]

\* lines 291-296: what becomes of a resource whose expansion raised e
ResourceFailure(done, e, res) ==
    [raised |-> e, list |-> <<>>,
     stderr |-> done.stderr \o <<[stream |-> "stderr", line |-> "pprint(res)"]>>]

\* the loop of expand_resourcegroup, lines 289-296
RECURSIVE ExpandResources(_, _)
ExpandResources(resources, service_name_to_id) ==
    IF resources = <<>> THEN [raised |-> "none", list |-> <<>>, stderr |-> <<>>]
    ELSE LET n == Len(resources)
             before == ExpandResources(SubSeq(resources, 1, n - 1), service_name_to_id)
         IN IF before.raised # "none" THEN before
            ELSE LET r == expand_resource(resources[n].k, resources[n].v, service_name_to_id)
                 IN IF r.raised # "none"
                    THEN ResourceFailure(before, r.raised, resources[n].v)
                    ELSE [before EXCEPT !.list = Append(before.list, r.value)]

\* expand_resourcegroup
expand_resourcegroup(rg, service_name_to_id, support_center_name_to_id) ==
    IF ~DictHas(support_center_name_to_id, rg.SupportCenter)
    THEN [raised |-> "KeyError", value |-> None, stderr |-> <<>>]
    ELSE LET sc == [ID |-> DictGet(support_center_name_to_id, rg.SupportCenter),
                    Name |-> rg.SupportCenter]
             new == ExpandResources(rg.Resources, service_name_to_id)
         IN IF new.raised # "none"
            THEN [raised |-> new.raised, value |-> None, stderr |-> new.stderr]
            ELSE [raised |-> "none",
                  value |-> Some([GroupID |-> rg.GroupID, GroupName |-> rg.GroupName,
                                  Facility |-> rg.Facility, Site |-> rg.Site,
                                  SupportCenter |-> sc,
                                  Resources |-> [Resource |-> SortByName(new.list)]]),
                  stderr |-> new.stderr]

Line(stream, text, name) == [stream |-> stream, line |-> text, name |-> name]

\* lines 341-343 raising instead of returning None
ResourceMissing_Raise(downtime) ==
    [raised |-> "KeyError", value |-> None,
     out |-> <<Line("stderr", "Resource does not exist", downtime.ResourceName)>>]

\* lines 341-343: no resource of the group has the downtime's ResourceName
ResourceMissing(downtime) ==
    [raised |-> "none", value |-> None,
     out |-> <<Line("stderr", "Resource does not exist", downtime.ResourceName)>>]

\* the inner loop of lines 346-356 for one listed service name
MatchService(services, dts, downtime) ==
    IF \E i \in 1..Len(services) : services[i].Name = dts
    THEN LET s == services[CHOOSE i \in 1..Len(services) :
                       /\ services[i].Name = dts
                       /\ \A j \in 1..(i - 1) : services[j].Name # dts]
         IN [found |-> <<[ID |-> s.ID, Name |-> s.Name, Description |-> s.Description]>>,
             out |-> <<>>]
    ELSE [found |-> <<>>,
          out |-> <<Line("stderr", "Service does not exist in resource", dts)>>]

RECURSIVE MatchServices(_, _, _)
MatchServices(services, listed, downtime) ==
    IF listed = <<>> THEN [found |-> <<>>, out |-> <<>>]
    ELSE LET first == MatchService(services, Head(listed), downtime)
             rest == MatchServices(services, Tail(listed), downtime)
         IN [found |-> first.found \o rest.found, out |-> first.out \o rest.out]

\* r["Services"]["Service"], line 339: a str cannot be indexed by "Service"
ServicesOf(r) ==
    IF r.Services.tag = "dict" THEN Returned(r.Services.Service) ELSE Throws("TypeError")

\* expand_downtime
expand_downtime(downtime, rge) ==
    LET resources == rge.Resources.Resource
        hits == {i \in 1..Len(resources) : resources[i].Name = downtime.ResourceName}
    IN IF hits = {} THEN ResourceMissing(downtime)
       ELSE LET r == resources[CHOOSE i \in hits : \A j \in hits : i <= j]
                services == ServicesOf(r)
            IN IF services.raised # "none"
               THEN [raised |-> services.raised, value |-> None, out |-> <<>>]
               ELSE LET m == MatchServices(services.value, downtime.Services, downtime)
                    IN IF m.found = <<>>
                       THEN [raised |-> "none", value |-> None,
                             out |-> m.out \o
                                <<Line("stdout", "No existing services listed for downtime",
                                       downtime.ResourceName)>>]
                       ELSE [raised |-> "none",
                             value |-> Some(
                                [ID |-> downtime.ID, ResourceID |-> r.ID,
                                 ResourceGroup |-> [GroupName |-> rge.GroupName,
                                                    GroupID |-> rge.GroupID],
                                 ResourceName |-> r.Name, ResourceFQDN |-> r.FQDN,
                                 StartTime |-> downtime.StartTime,
                                 EndTime |-> downtime.EndTime,
                                 Class |-> downtime.Class, Severity |-> downtime.Severity,
                                 CreatedTime |-> "Not Available",
                                 UpdateTime |-> "Not Available",
                                 Services |-> [Service |-> m.found],
                                 Description |-> downtime.Description]),
                             out |-> m.out]

\* Topology.get_downtimes
get_downtimes(past, current, future) ==
    [PastDowntimes |-> [Downtime |-> past],
     CurrentDowntimes |-> [Downtime |-> current],
     FutureDowntimes |-> [Downtime |-> future]]

----------------------------------------------------------------------------
(* get_rgsummary_rgdowntime: the driver over one facility directory with    *)
(* one site directory, the group files G1, G2, ... of the site taken in     *)
(* glob order, each with the entries of its downtime file.                  *)

\* services.yaml and support-centers.yaml
service_name_to_id == <<[k |-> S_CE, v |-> 1], [k |-> S_SE, v |-> 3]>>
support_center_name_to_id == <<[k |-> S_SC, v |-> 7]>>

\* the name of the i-th group file, less ".yaml"
GroupFile(i) == <<71, 48 + i>>

Svc(names) ==
    [i \in 1..Len(names) |-> [k |-> names[i], v |-> [Description |-> "d", Details |-> "x"]]]
Res(id, services, voo) ==
    [ID |-> id, FQDN |-> "host.example", Services |-> services, VOOwnership |-> voo]
Group(sc, resources) == [GroupID |-> 5, SupportCenter |-> sc, Resources |-> resources]

ServiceChoices ==
    {None, Some(Svc(<<S_CE>>)), Some(Svc(<<S_CE, S_SE>>)), Some(Svc(<<S_XX>>))}

\* the contents a group file may have
GroupInputs ==
    {Group(S_SC, <<[k |-> S_X, v |-> Res(11, sv, None)]>>) : sv \in ServiceChoices}
    \cup {Group(S_SC, <<[k |-> S_Y, v |-> Res(12, sv, None)],
                        [k |-> S_X, v |-> Res(11, Some(Svc(<<S_CE>>)),
                                              Some(<<[k |-> S_A, v |-> 60]>>))]>>) :
            sv \in {Some(Svc(<<S_SE>>)), Some(Svc(<<S_XX>>))}}
    \cup {Group(S_NoSC, <<[k |-> S_X, v |-> Res(11, Some(Svc(<<S_CE>>)), None)]>>)}

T_Start == TimeString(TRUE, 1, 0, <<SP>>, S_AM)     \* "1/2 01:00 AM"
T_End == TimeString(TRUE, 13, 0, <<SP>>, S_PM)      \* "1/2 13:00 PM"
T_Bad == TimeString(FALSE, 17, 0, <<SP>>, S_PM)     \* "17:00 PM"

Downtime(resource, services, start) ==
    [ID |-> 21, ResourceName |-> resource, Services |-> services, StartTime |-> start,
     EndTime |-> T_End, Class |-> "SCHEDULED", Severity |-> "Outage", Description |-> "d"]

\* the entries a downtime file may have
DowntimeInputs ==
    {Downtime(S_X, sv, T_Start) : sv \in {<<S_CE>>, <<S_SE, S_CE>>, <<S_SE>>}}
    \cup {Downtime(S_Z, <<S_CE>>, T_Start), Downtime(S_X, <<S_CE>>, T_Bad)}

\* the instants the clock may show: before, inside and after the window
DriverInstants == {parsetime(T_Start).t - 1, parsetime(T_Start).t, parsetime(T_End).t + 1}

InitDriver ==
    /\ data = <<>>
    /\ past_downtimes = <<>> /\ current_downtimes = <<>> /\ future_downtimes = <<>>
    /\ raised = "none"
    /\ log = <<>>
    /\ clock = parsetime(T_Start).t - 1
    /\ pc = "facilities"
    /\ rg_expanded = <<>>
    /\ stderr = <<>>
    /\ downtimes = 0
    /\ arg = [op |-> "none"]
    /\ ret = <<>>

\* lines 378-381: the facility directory, with or without its FACILITY.yaml
LoadFacility ==
    /\ pc = "facilities"
    /\ \E present \in BOOLEAN, id \in FacilityIds :
         data' = IF present THEN add_facility(data, N_F, id).data ELSE data
    /\ pc' = "sites"
    /\ UNCHANGED <<past_downtimes, current_downtimes, future_downtimes, raised, log,
                   clock, rg_expanded, stderr, downtimes, arg, ret>>

\* lines 382-385: the site directory, with or without its SITE.yaml
LoadSite ==
    /\ pc = "sites"
    /\ \E present \in BOOLEAN, id \in SiteIds :
         data' = IF present THEN add_site(data, N_F, N_S, id).data ELSE data
    /\ pc' = "groups"
    /\ UNCHANGED <<past_downtimes, current_downtimes, future_downtimes, raised, log,
                   clock, rg_expanded, stderr, downtimes, arg, ret>>

\* topology.data[facility]["ID"] and topology.data[facility][site]["ID"], lines 399-400
IdsOf(d, facility, site) ==
    IF ~DictHas(d, facility) THEN Throws("KeyError")
    ELSE LET fd == DictGet(d, facility).d
         IN IF ~DictHas(fd, ID_KEY) \/ ~DictHas(fd, site) THEN Throws("KeyError")
            ELSE LET sd == DictGet(fd, site).d
                 IN IF ~DictHas(sd, ID_KEY) THEN Throws("KeyError")
                    ELSE Returned([facility_id |-> DictGet(fd, ID_KEY).n,
                                   site_id |-> DictGet(sd, ID_KEY).n])

\* lines 398-410: the try block of one group file
TryGroup(d, facility, site, name, rg) ==
    LET ids == IdsOf(d, facility, site)
    IN IF ids.raised # "none"
       THEN [raised |-> "RGError", data |-> d, value |-> None, stderr |-> <<>>]
       ELSE LET rg1 == [GroupID |-> rg.GroupID, SupportCenter |-> rg.SupportCenter,
                        Resources |-> rg.Resources,
                        Facility |-> [ID |-> ids.value.facility_id, Name |-> facility],
                        Site |-> [ID |-> ids.value.site_id, Name |-> site],
                        GroupName |-> name]
                e == expand_resourcegroup(rg1, service_name_to_id, support_center_name_to_id)
            IN IF e.raised # "none"
               THEN [raised |-> "RGError", data |-> d, value |-> None, stderr |-> e.stderr]
               ELSE LET a == add_rg(d, facility, site, name, e.value[1])
                    IN IF a.raised # "none"
                       THEN [raised |-> "RGError", data |-> d, value |-> None, stderr |-> <<>>]
                       ELSE [raised |-> "none", data |-> a.data, value |-> e.value,
                             stderr |-> e.stderr]

Announced == LET RECURSIVE Sum(_)
                 Sum(i) == IF i = 0 THEN 0 ELSE log[i].downtimes + Sum(i - 1)
             IN Sum(Len(log))

\* lines 386-410: the next group file and its downtime file are read, the
\* group is expanded and stored
ProcessGroup ==
    /\ pc = "groups"
    /\ downtimes = 0
    /\ Len(log) < MaxGroups
    /\ \E rg \in GroupInputs, n \in 0..(MaxDowntimes - Announced) :
         \E name \in {GroupFile(Len(log) + 1)} :
         \E r \in {TryGroup(data, N_F, N_S, name, rg)} :
            /\ data' = r.data
            /\ raised' = r.raised
            /\ stderr' = stderr \o r.stderr
            /\ rg_expanded' = IF r.raised = "none" THEN r.value ELSE rg_expanded
            /\ downtimes' = n
            /\ pc' = IF r.raised = "none" THEN "groups" ELSE "aborted"
            /\ log' = Append(log, [name |-> name, downtimes |-> n])
            /\ arg' = [op |-> "group", name |-> name, rg |-> rg, downtimes |-> n]
    /\ UNCHANGED <<past_downtimes, current_downtimes, future_downtimes, clock, ret>>

\* lines 411-418: one entry of the downtime file
ProcessDowntime ==
    /\ pc = "groups"
    /\ downtimes > 0
    /\ \E downtime \in DowntimeInputs, now \in {t \in DriverInstants : t >= clock} :
         \E e \in {expand_downtime(downtime, rg_expanded[1])} :
         \E a \in {IF e.raised = "none"
                   THEN add_downtime(past_downtimes, current_downtimes, future_downtimes,
                                     e.value, now)
                   ELSE [past |-> past_downtimes, current |-> current_downtimes,
                         future |-> future_downtimes, raised |-> e.raised]} :
            /\ past_downtimes' = a.past
            /\ current_downtimes' = a.current
            /\ future_downtimes' = a.future
            /\ raised' = IF a.raised = "none" THEN "none" ELSE "DowntimeError"
            /\ pc' = IF a.raised = "none" THEN "groups" ELSE "aborted"
            /\ stderr' = stderr \o e.out
            /\ clock' = now
            /\ arg' = [op |-> "downtime", downtime |-> downtime,
                       result |-> [raised |-> e.raised, value |-> e.value],
                       cause |-> a.raised]
    /\ downtimes' = downtimes - 1
    /\ UNCHANGED <<data, log, rg_expanded, ret>>

\* line 420: the two documents
Finish ==
    /\ pc = "groups"
    /\ downtimes = 0
    /\ ret' = [ResourceSummary |-> [ResourceGroup |-> get_resource_summary(data)],
               Downtimes |-> get_downtimes(past_downtimes, current_downtimes,
                                           future_downtimes)]
    /\ pc' = "done"
    /\ UNCHANGED <<data, past_downtimes, current_downtimes, future_downtimes, raised, log,
                   clock, rg_expanded, stderr, downtimes, arg>>

NextDriver == LoadFacility \/ LoadSite \/ ProcessGroup \/ ProcessDowntime \/ Finish

SpecDriver == InitDriver /\ [][NextDriver]_vars

----------------------------------------------------------------------------
(* Properties of the driver *)

Buckets == <<past_downtimes, current_downtimes, future_downtimes>>
NamedResources(name, rge) ==
    {i \in 1..Len(rge.Resources.Resource) : rge.Resources.Resource[i].Name = name}
MissingLine(name) == Line("stderr", "Resource does not exist", name)

\* the listed service names that name a service of the resource, in listed order
Resolvable(listed, r) ==
    LET names == IF r.Services.tag = "dict"
                 THEN {r.Services.Service[i].Name : i \in 1..Len(r.Services.Service)}
                 ELSE {}
    IN SelectSeq(listed, LAMBDA n : n \in names)

\* C6: for a downtime whose resource exists in the group, whatever the
\* resource's Services field is (a resolved list or the injected default),
\* expand_downtime does not raise: it returns the downtime with exactly the
\* listed services that match, in listed order, each as {ID, Name,
\* Description}, or None when none matches.
C6_ExpandDowntimeNeverRaises ==
    (arg.op = "downtime" /\ NamedResources(arg.downtime.ResourceName, rg_expanded[1]) # {})
    => LET rge == rg_expanded[1]
           r == rge.Resources.Resource[
                    CHOOSE i \in NamedResources(arg.downtime.ResourceName, rge) : TRUE]
           expected == Resolvable(arg.downtime.Services, r)
       IN /\ arg.result.raised = "none"
          /\ IF expected = <<>> THEN arg.result.value = None
             ELSE /\ arg.result.value # None
                  /\ LET got == arg.result.value[1].Services.Service
                     IN /\ Len(got) = Len(expected)
                        /\ \A i \in 1..Len(got) :
                             /\ got[i].Name = expected[i]
                             /\ got[i].ID = DictGet(service_name_to_id, expected[i])
                             /\ DOMAIN got[i] = {"ID", "Name", "Description"}

\* C7: a downtime whose ResourceName matches no resource of its group makes
\* expand_downtime print one diagnostic line and return None; add_downtime then
\* adds nothing, the three buckets are unchanged, and the driver stays in its
\* loop, no exception raised.
C7_MissingResourceDropped ==
    [][(/\ downtimes' = downtimes - 1
        /\ NamedResources(arg'.downtime.ResourceName, rg_expanded[1]) = {})
       => /\ arg'.result = [raised |-> "none", value |-> None]
          /\ stderr' = Append(stderr, MissingLine(arg'.downtime.ResourceName))
          /\ Buckets' = Buckets
          /\ raised' = "none"
          /\ pc' = "groups"
          /\ data' = data]_vars

\* a downtime was filed after an earlier one was dropped for its missing
\* resource, and the run has returned its documents
C7_Witness ==
    /\ pc = "done"
    /\ arg.op = "downtime"
    /\ arg.result.value # None
    /\ \E i \in 1..Len(stderr) : stderr[i] = MissingLine(S_Z)
    /\ Len(ret.Downtimes.CurrentDowntimes.Downtime) = 1

UnknownService(res) ==
    /\ ~is_null(res.Services)
    /\ \E i \in 1..Len(res.Services[1]) : ~DictHas(service_name_to_id, res.Services[1][i].k)
FailingResources(rg) == {i \in 1..Len(rg.Resources) : UnknownService(rg.Resources[i].v)}
InBuckets(name) ==
    \E b \in 1..3 : \E i \in 1..Len(Buckets[b]) : Buckets[b][i].ResourceGroup.GroupName = name

\* C9: when the expansion of one resource of a group fails, no partial group
\* comes back: the run ends in an RGError, the group is not in the store, none
\* of its downtimes is in a bucket, and no document is returned.
C9_GroupFailureAbortsRun ==
    (arg.op = "group" /\ FailingResources(arg.rg) # {})
    => /\ raised = "RGError"
       /\ pc = "aborted"
       /\ StoredRg(data, <<N_F, N_S, arg.name>>) = <<>>
       /\ \A g \in 1..Len(get_resource_summary(data)) :
            get_resource_summary(data)[g].GroupName # arg.name
       /\ rg_expanded = None \/ rg_expanded[1].GroupName # arg.name
       /\ ~InBuckets(arg.name)
       /\ downtimes = arg.downtimes
       /\ ret = <<>>

\* the second group file has one resource that fails and one that expands,
\* and a downtime file with entries; the first group is in the store
C9_Witness ==
    /\ arg.op = "group"
    /\ Len(log) = 2
    /\ FailingResources(arg.rg) # {}
    /\ Len(arg.rg.Resources) > Cardinality(FailingResources(arg.rg))
    /\ arg.downtimes > 0
    /\ raised = "RGError"
    /\ StoredRg(data, <<N_F, N_S, GroupFile(1)>>) # <<>>

====
